---- MODULE Spec2Model ----
(***************************************************************************)
(* Model of scripts/elasticsearch_backfill_app.py: ElasticsearchBackfillApp *)
(* walks backwards over `duration` days from `end_date`; for each day it    *)
(* creates the elasticsearch index, pulls the day's processed crashes from  *)
(* HBase, rewrites their dates and bulk-indexes them in batches.            *)
(*                                                                         *)
(* main() is one sequential process; pc is its position.  Every call to a   *)
(* collaborator (create_index, get_list_of_processed_json_for_date,         *)
(* bulk_index) and json.loads either returns or raises; main() has no       *)
(* try/except, so a raise ends the run (pc = "raised").                     *)
(***************************************************************************)
EXTENDS Integers, Sequences, FiniteSets, TLC

\* ---------------------------------------------------------------- bounds
MaxDuration == 2
MaxRecords == 3
MaxThreshold == 2

\* ---------------------------------------------------------------- values
None == "None"

\* main() has not returned a value
NoValue == 0 - 1

\* number_of_retries passed to the HBase client
number_of_retries == 5

\* calendar dates (datetime.date) as records y/m/d
MkDate(y, m, d) == [y |-> y, m |-> m, d |-> d]

IsLeap(y) == (y % 4 = 0) /\ ((y % 100 # 0) \/ (y % 400 = 0))

DaysInMonth(y, m) ==
    IF m = 2 THEN (IF IsLeap(y) THEN 29 ELSE 28)
    ELSE IF m \in {4, 6, 9, 11} THEN 30 ELSE 31

\* date - datetime.timedelta(days=1)
MinusOneDay(date) ==
    IF date.d > 1 THEN MkDate(date.y, date.m, date.d - 1)
    ELSE IF date.m > 1
         THEN MkDate(date.y, date.m - 1, DaysInMonth(date.y, date.m - 1))
         ELSE MkDate(date.y - 1, 12, 31)

one_day_none == 1 - 1

\* datetime.timedelta(days=1), in days
one_day == 1

RECURSIVE MinusDays(_, _)
MinusDays(date, n) ==
    IF n <= 0 THEN date ELSE MinusDays(MinusOneDay(date), n - 1)

\* two-digit, zero padded decimal text
TwoDigits(n) == IF n < 10 THEN "0" \o ToString(n) ELSE ToString(n)

\* one strftime directive or literal piece of a format
FormatPiece(date, piece) ==
    IF piece = "%Y" THEN ToString(date.y)
    ELSE IF piece = "%y" THEN TwoDigits(date.y % 100)
    ELSE IF piece = "%m" THEN TwoDigits(date.m)
    ELSE IF piece = "%d" THEN TwoDigits(date.d)
    ELSE IF piece = "%%" THEN "%"
    ELSE piece

\* date.strftime(format); a format is a sequence of literal pieces and
\* directives
RECURSIVE strftime(_, _)
strftime(date, format) ==
    IF format = <<>> THEN ""
    ELSE FormatPiece(date, Head(format)) \o strftime(date, Tail(format))

\* the pieces of a format that hold a '%': the date directives and the
\* escape of a literal percent sign
Directives == {"%Y", "%y", "%m", "%d", "%%"}

\* '%' in index
HasPercent(format) == \E k \in DOMAIN format : format[k] \in Directives

\* the literal text of a format without directives
RECURSIVE Literal(_)
Literal(format) ==
    IF format = <<>> THEN "" ELSE Head(format) \o Literal(Tail(format))

\* ---------------------------------------------------------------- config
EndDates == {MkDate(2024, 3, 1), MkDate(2023, 1, 1)}
Durations == (0 - 1) .. MaxDuration
Thresholds == (0 - 1) .. MaxThreshold
IndexTemplates == {<<>>, <<"socorro">>, <<"socorro", "%Y", "%m", "%d">>}

\* ---------------------------------------------------------------- crashes
\* date strings as HBase returns them, the form date_to_string writes, and
\* text that is no date
HBaseDate == "2012-05-04 15:10:33.123456"
CanonDate == "2012-05-04T15:10:33.123456+00:00"
DateOnly == "2012-05-04"
CanonMidnight == "2012-05-04T00:00:00+00:00"
NotADate == "Firefox"
FieldValues == {HBaseDate}

\* the two moments the date strings above denote
Moment == "dt:2012-05-04 15:10:33.123456 UTC"
Midnight == "dt:2012-05-04 00:00:00.000000 UTC"

\* datetimeutil.string_to_datetime: the datetime a string denotes, or a
\* ValueError / TypeError / ISO8601Error ("error")
string_to_datetime(s) ==
    IF s \in {HBaseDate, CanonDate} THEN Moment
    ELSE IF s \in {DateOnly, CanonMidnight} THEN Midnight
    ELSE "error"

\* datetimeutil.date_to_string
date_to_string(dt) == IF dt = Moment THEN CanonDate ELSE CanonMidnight

\* a processed crash as a JSON string in HBase: well formed or not
Uuid(dayKey, k) == dayKey \o "-" \o ToString(k)
RawReport(dayKey, k, v) ==
    [json |-> TRUE, uuid |-> Uuid(dayKey, k), date_processed |-> v]
Malformed(dayKey, k) ==
    [json |-> FALSE, uuid |-> Uuid(dayKey, k), date_processed |-> NotADate]

\* json.loads(report): the decoded mapping; raises ValueError on malformed
\* text
CanDecode(report) == report.json
json_loads(report) ==
    [uuid |-> report.uuid, date_processed |-> report.date_processed]

\* a datetime moved to another time of day
Shifted(dt) == IF dt = Moment THEN Midnight ELSE Moment

FormatAttr_shift(v) ==
    IF string_to_datetime(v) # "error"
    THEN date_to_string(Shifted(string_to_datetime(v)))
    ELSE v

\* the value one attribute gets in format_dates_in_crash
FormatAttr(v) ==
    IF string_to_datetime(v) # "error"
    THEN date_to_string(string_to_datetime(v))
    ELSE v

format_dates_in_crash_all_or_nothing(crash) ==
    IF \E attr \in DOMAIN crash : string_to_datetime(crash[attr]) = "error"
    THEN crash
    ELSE [attr \in DOMAIN crash |-> FormatAttr(crash[attr])]

\* for attr in processed_crash: try: ... except: pass; return processed_crash
format_dates_in_crash(crash) ==
    [attr \in DOMAIN crash |-> FormatAttr(crash[attr])]

\* what the HBase client can return for a day: up to MaxRecords reports
ReportLists(dayKey) ==
    UNION {
        { [k \in 1..n |-> IF body[k] = "malformed" THEN Malformed(dayKey, k)
                          ELSE RawReport(dayKey, k, body[k])] :
          body \in [1..n -> FieldValues \cup {"malformed"}] }
        : n \in 0..MaxRecords }

\* ---------------------------------------------------------------- state
VARIABLES
    end_date, duration, index_doc_number, elasticsearch_index,  \* config
    current_date, i, es_index, day, reports, r,                 \* locals of
    processed_crash, crashes_to_index,                          \*   main()
    pc, result,                                                 \* control
    attempts,                          \* failed tries of the running fetch
    calls                                                       \* call log

config == <<end_date, duration, index_doc_number, elasticsearch_index>>
locals == <<current_date, i, es_index, day, reports, r, processed_crash,
            crashes_to_index>>
vars == <<config, locals, pc, result, attempts, calls>>

get_index_for_date_unset(date) ==
    IF HasPercent(elasticsearch_index)
    THEN strftime(date, elasticsearch_index)
    ELSE Literal(elasticsearch_index)

\* get_index_for_date(day)
get_index_for_date(date) ==
    IF elasticsearch_index = <<>> THEN None
    ELSE IF HasPercent(elasticsearch_index)
         THEN strftime(date, elasticsearch_index)
         ELSE Literal(elasticsearch_index)

\* the three collaborator calls, as entries of the call log
CreateCall(ok) ==
    [op |-> "create_index", date |-> current_date, index |-> es_index,
     docs |-> <<>>, ok |-> ok]
FetchCall(list, ok) ==
    [op |-> "get_list", date |-> current_date, index |-> day,
     docs |-> list, ok |-> ok, retries |-> number_of_retries]
\* index_crashes(es_index, crashes_to_index)
index_crashes(index, crashes, ok) ==
    [op |-> "bulk_index", date |-> current_date, index |-> index,
     docs |-> crashes, ok |-> ok]

\* an exception leaves main(): nothing is returned
Raise ==
    /\ pc' = "raised"
    /\ result' = NoValue

BatchFull_ge(crashes) == Len(crashes) >= index_doc_number
BatchFull_late(crashes) == Len(crashes) > index_doc_number + 1

\* len(crashes_to_index) > self.config.index_doc_number
BatchFull(crashes) == Len(crashes) > index_doc_number

InRange_le(k) == k <= duration

\* i in range(self.config.duration)
InRange(k) == k < duration

NewBatch_keep(old) == old

\* crashes_to_index = [] after the fetch
NewBatch(old) == <<>>

HasPending_gt1(crashes) == Len(crashes) > 1
HasPending_never(crashes) == FALSE

\* len(crashes_to_index) > 0
HasPending(crashes) == Len(crashes) > 0

OnFetchError_refetch ==
    /\ pc' = "fetch"
    /\ UNCHANGED result

OnFetchError_skip ==
    /\ pc' = "next_day"
    /\ UNCHANGED result

\* nothing in main() catches what the fetch raises
OnFetchError == Raise

\* nothing in main() catches what json.loads raises
OnDecodeError == Raise

OnWriteError_continue ==
    /\ pc' = "for_report"
    /\ UNCHANGED result

\* nothing in main() or index_crashes catches what bulk_index raises
OnWriteError == Raise

\* the state when main() reaches its for loop
Init ==
    /\ end_date \in EndDates
    /\ duration \in Durations
    /\ index_doc_number \in Thresholds
    /\ elasticsearch_index \in IndexTemplates
    /\ current_date = end_date
    /\ i = 0
    /\ es_index = None
    /\ day = ""
    /\ reports = <<>>
    /\ r = 0
    /\ processed_crash = None
    /\ crashes_to_index = <<>>
    /\ pc = "for_day"
    /\ result = NoValue
    /\ attempts = 0
    /\ calls = <<>>

\* for i in range(duration): es_index, day
ForDay ==
    /\ UNCHANGED attempts
    /\ pc = "for_day"
    /\ InRange(i)
    /\ es_index' = get_index_for_date(current_date)
    /\ day' = strftime(current_date, <<"%y", "%m", "%d">>)
    /\ pc' = "create_index"
    /\ UNCHANGED <<config, current_date, i, reports, r, processed_crash,
                   crashes_to_index, result, calls>>

\* the range is exhausted: return 0
Return ==
    /\ UNCHANGED attempts
    /\ pc = "for_day"
    /\ ~InRange(i)
    /\ pc' = "done"
    /\ result' = 0
    /\ UNCHANGED <<config, locals, calls>>

\* self.es_storage.create_index(es_index)
CreateIndex ==
    /\ UNCHANGED attempts
    /\ pc = "create_index"
    /\ \/ /\ calls' = Append(calls, CreateCall(TRUE))
          /\ pc' = "fetch"
          /\ UNCHANGED result
       \/ /\ calls' = Append(calls, CreateCall(FALSE))
          /\ Raise
    /\ UNCHANGED <<config, locals>>

\* inside get_list_of_processed_json_for_date: a try failed and the client
\* tries again, as long as tries are left
FetchRetry ==
    /\ pc = "fetch"
    /\ attempts + 1 < number_of_retries
    /\ attempts' = attempts + 1
    /\ UNCHANGED <<config, locals, pc, result, calls>>

\* reports = hb_client.get_list_of_processed_json_for_date(day, 5)
\* crashes_to_index = []
\* The call returns the day's reports when a try succeeds and raises when
\* the last try allowed has failed.
Fetch ==
    /\ pc = "fetch"
    /\ \/ /\ \E list \in ReportLists(day) :
                /\ reports' = list
                /\ calls' = Append(calls, FetchCall(list, TRUE))
          /\ crashes_to_index' = NewBatch(crashes_to_index)
          /\ r' = 0
          /\ attempts' = 0
          /\ pc' = "for_report"
          /\ UNCHANGED result
       \/ /\ attempts + 1 >= number_of_retries
          /\ calls' = Append(calls, FetchCall(<<>>, FALSE))
          /\ OnFetchError
          /\ UNCHANGED <<reports, crashes_to_index, r, attempts>>
    /\ UNCHANGED <<config, current_date, i, es_index, day, processed_crash>>

\* for report in reports:
\*     processed_crash = self.format_dates_in_crash(json.loads(report))
NextReport ==
    /\ UNCHANGED attempts
    /\ pc = "for_report"
    /\ r < Len(reports)
    /\ r' = r + 1
    /\ IF CanDecode(reports[r + 1])
       THEN /\ processed_crash' =
                   format_dates_in_crash(json_loads(reports[r + 1]))
            /\ pc' = "store"
            /\ UNCHANGED result
       ELSE /\ OnDecodeError
            /\ UNCHANGED processed_crash
    /\ UNCHANGED <<config, current_date, i, es_index, day, reports,
                   crashes_to_index, calls>>

\* the for loop over reports is exhausted
ReportsDone ==
    /\ UNCHANGED attempts
    /\ pc = "for_report"
    /\ r >= Len(reports)
    /\ pc' = "end_of_day"
    /\ UNCHANGED <<config, locals, result, calls>>

\* if len(crashes_to_index) > index_doc_number: index, reset
\* crashes_to_index.append(processed_crash)
Store ==
    /\ UNCHANGED attempts
    /\ pc = "store"
    /\ IF BatchFull(crashes_to_index)
       THEN \/ /\ calls' = Append(calls,
                       index_crashes(es_index, crashes_to_index, TRUE))
               /\ crashes_to_index' = <<processed_crash>>
               /\ pc' = "for_report"
               /\ UNCHANGED result
            \/ /\ calls' = Append(calls,
                       index_crashes(es_index, crashes_to_index, FALSE))
               /\ OnWriteError
               /\ UNCHANGED crashes_to_index
       ELSE /\ crashes_to_index' = Append(crashes_to_index, processed_crash)
            /\ pc' = "for_report"
            /\ UNCHANGED <<result, calls>>
    /\ UNCHANGED <<config, current_date, i, es_index, day, reports, r,
                   processed_crash>>

\* if len(crashes_to_index) > 0: self.index_crashes(...)
EndOfDay ==
    /\ UNCHANGED attempts
    /\ pc = "end_of_day"
    /\ IF HasPending(crashes_to_index)
       THEN \/ /\ calls' = Append(calls,
                       index_crashes(es_index, crashes_to_index, TRUE))
               /\ pc' = "next_day"
               /\ UNCHANGED result
            \/ /\ calls' = Append(calls,
                       index_crashes(es_index, crashes_to_index, FALSE))
               /\ OnWriteError
       ELSE /\ pc' = "next_day"
            /\ UNCHANGED <<result, calls>>
    /\ UNCHANGED <<config, locals>>

\* current_date -= one_day, and on to the next i
NextDay ==
    /\ UNCHANGED attempts
    /\ pc = "next_day"
    /\ current_date' = MinusDays(current_date, one_day)
    /\ i' = i + 1
    /\ pc' = "for_day"
    /\ UNCHANGED <<config, es_index, day, reports, r, processed_crash,
                   crashes_to_index, result, calls>>

Next ==
    \/ ForDay
    \/ Return
    \/ CreateIndex
    \/ FetchRetry
    \/ Fetch
    \/ NextReport
    \/ ReportsDone
    \/ Store
    \/ EndOfDay
    \/ NextDay

Spec == Init /\ [][Next]_vars

\* main() is the only process and each of its steps is always taken
FairSpec == Spec /\ WF_vars(Next)

TypeOK ==
    /\ pc \in {"for_day", "create_index", "fetch", "for_report", "store",
               "end_of_day", "next_day", "done", "raised"}
    /\ r \in 0..Len(reports)
    /\ i \in 0..(MaxDuration + 1)

\* ---------------------------------------------------------------- helpers
Max(a, b) == IF a > b THEN a ELSE b

IsPrefix(s, t) == Len(s) <= Len(t) /\ \A k \in DOMAIN s : s[k] = t[k]

IsBulk(c) == c.op = "bulk_index"
IsCreate(c) == c.op = "create_index"
IsFetch(c) == c.op = "get_list"

\* the bulk writes issued for one day, in order, and their sizes
DayWritesOf(log, date) ==
    SelectSeq(log, LAMBDA c : IsBulk(c) /\ c.date = date)
DayWrites(date) == DayWritesOf(calls, date)

\* the fetch calls main() has made for one day
DayFetches(date) == SelectSeq(calls, LAMBDA c : IsFetch(c) /\ c.date = date)
Sizes(writes) == [k \in DOMAIN writes |-> Len(writes[k].docs)]

\* the reports of the current day that json.loads has decoded so far
Decoded == Cardinality({k \in 1..r : CanDecode(reports[k])})

\* the day's loop is over and nothing was raised
DayComplete == pc = "next_day"

RECURSIVE SumSeq(_)
SumSeq(q) == IF q = <<>> THEN 0 ELSE Head(q) + SumSeq(Tail(q))

\* the k-th day of the window that starts at end_date (k = 1, 2, ...)
WindowDay(k) == MinusDays(end_date, k - 1)

FailedFetch(n) == IsFetch(calls[n]) /\ ~calls[n].ok
FailedBulk(n) == IsBulk(calls[n]) /\ ~calls[n].ok

\* the days for which processing has begun, in order
ProcessedDays ==
    LET creates == SelectSeq(calls, IsCreate)
    IN  [k \in DOMAIN creates |-> creates[k].date]

\* proleptic Gregorian ordinal of a date (1 = 0001-01-01)
DaysBeforeYear(y) ==
    365 * (y - 1) + ((y - 1) \div 4) - ((y - 1) \div 100) + ((y - 1) \div 400)
RECURSIVE DaysBeforeMonth(_, _)
DaysBeforeMonth(y, m) ==
    IF m <= 1 THEN 0 ELSE DaysBeforeMonth(y, m - 1) + DaysInMonth(y, m - 1)
ToOrdinal(date) ==
    DaysBeforeYear(date.y) + DaysBeforeMonth(date.y, date.m) + date.d
IsDate(date) ==
    /\ date.m \in 1..12
    /\ date.d \in 1..DaysInMonth(date.y, date.m)

\* ---------------------------------------------------------------- C1
\* the batch sizes the closed form gives for n records under threshold T
ExpectedSizes(n, T) ==
    LET full == n \div (T + 1)
        rest == n % (T + 1)
    IN  [k \in 1..(full + (IF rest > 0 THEN 1 ELSE 0)) |->
            IF k <= full THEN T + 1 ELSE rest]

\* the batch sizes of an offer/flush batcher: offer appends and hands out
\* the pending records once their count exceeds T; flush hands out what is
\* left
RECURSIVE OfferFlush(_, _, _)
OfferFlush(n, T, pending) ==
    IF n = 0 THEN (IF pending > 0 THEN <<pending>> ELSE <<>>)
    ELSE IF pending + 1 > T
         THEN <<pending + 1>> \o OfferFlush(n - 1, T, 0)
         ELSE OfferFlush(n - 1, T, pending + 1)

\* no collaborator call has failed
AllCallsOk == \A n \in DOMAIN calls : calls[n].ok

\* the run is over: main() returned or an exception left it
RunEnded == pc \in {"done", "raised"}

\* C1 as claimed: for every threshold T >= 0, once the processing of a day
\* is over and no collaborator call has failed, the sizes of the day's bulk
\* writes are, in order, floor(n/(T+1)) batches of T+1 records followed, iff
\* n mod (T+1) > 0, by one batch of n mod (T+1), n being the number of
\* records of the day that were decoded.
C1_SizesForDecoded ==
    (index_doc_number >= 0 /\ AllCallsOk /\ DayFetches(current_date) # <<>>
        /\ (DayComplete \/ RunEnded)) =>
        Sizes(DayWrites(current_date)) =
            ExpectedSizes(Decoded, index_doc_number)

\* C1 on the days that no exception cuts short: the sizes are those of the
\* closed form and of the offer/flush batcher; while a day is under way, or
\* when an exception ended it, the writes issued so far are a prefix of that
\* sequence.
C1_BatchSizes ==
    index_doc_number >= 0 =>
        LET sizes == Sizes(DayWrites(current_date))
            expected == ExpectedSizes(Decoded, index_doc_number)
        IN  /\ expected = OfferFlush(Decoded, index_doc_number, 0)
            /\ IsPrefix(sizes, expected)
            /\ DayComplete => (Decoded = Len(reports) /\ sizes = expected)

\* threshold 1 and three records: a batch of 2, then a batch of 1
C1_Witness ==
    /\ DayComplete
    /\ index_doc_number = 1
    /\ Len(reports) = 3
    /\ Sizes(DayWrites(current_date)) = <<2, 1>>

FetchedCrashes(date) ==
    UNION { { format_dates_in_crash(json_loads(c.docs[k])) :
                k \in {j \in DOMAIN c.docs : CanDecode(c.docs[j])} } :
            c \in {calls[n] : n \in {j \in DOMAIN calls :
                        IsFetch(calls[j]) /\ calls[j].ok
                        /\ calls[j].date = date}} }

\* the index name of a day, from the configured template
IndexNameOf(date) ==
    IF elasticsearch_index = <<>> THEN None
    ELSE IF elasticsearch_index = <<"socorro">> THEN "socorro"
    ELSE "socorro" \o ToString(date.y) \o TwoDigits(date.m)
             \o TwoDigits(date.d)

C4_ExactlyDurationDays ==
    (RunEnded /\ AllCallsOk /\ duration > 0) =>
        Len(ProcessedDays) = duration

\* C4 on the runs that return: the days are processed downwards from
\* end_date (in every run, as far as it gets), each exactly one
\* calendar day before the previous one, and a run that returns with
\* duration > 0 has processed exactly `duration` days, each created and
\* fetched once.
C4_DaysDescending ==
    /\ Len(ProcessedDays) <= Max(duration, 0)
    /\ \A k \in DOMAIN ProcessedDays :
           /\ IsDate(ProcessedDays[k])
           /\ ToOrdinal(ProcessedDays[k]) = ToOrdinal(end_date) - (k - 1)
    /\ (pc = "done" /\ duration > 0) =>
           /\ Len(ProcessedDays) = duration
           /\ Len(SelectSeq(calls, IsFetch)) = duration

\* a finished run of two days or more went from 2024-03-01 to 2024-02-29
C4_Witness ==
    /\ pc = "done"
    /\ duration >= 2
    /\ end_date = MkDate(2024, 3, 1)
    /\ ProcessedDays[2] = MkDate(2024, 2, 29)

\* ---------------------------------------------------------------- C5
\* C5: with duration <= 0 no day is processed: no create_index, no fetch and
\* no bulk write is ever issued, nothing is raised, and the run can only
\* return 0.
C5_EmptyWindow ==
    duration <= 0 =>
        /\ calls = <<>>
        /\ i = 0
        /\ pc \in {"for_day", "done"}
        /\ pc = "done" => result = 0

\* a run with a negative duration has returned 0
C5_Witness ==
    /\ duration < 0
    /\ pc = "done"
    /\ result = 0
    /\ calls = <<>>

\* ---------------------------------------------------------------- C6
\* C6 as claimed: create_index is requested only with a present index name;
\* with an empty template it is never requested.
C6_CreateOnlyIfNamed ==
    \A n \in DOMAIN calls : IsCreate(calls[n]) => calls[n].index # None

\* ---------------------------------------------------------------- C7
\* C7 as claimed: when a run has ended, every day whose fetch failed has
\* no bulk write, and every later day of the window was still created and
\* fetched.
C7_ContinuesAfterFetchFailure ==
    pc \in {"done", "raised"} =>
        \A n \in DOMAIN calls :
            FailedFetch(n) =>
                /\ DayWrites(calls[n].date) = <<>>
                /\ \A k \in 1..duration :
                       ToOrdinal(WindowDay(k)) < ToOrdinal(calls[n].date) =>
                           \E m \in DOMAIN calls :
                               /\ IsFetch(calls[m])
                               /\ calls[m].date = WindowDay(k)

\* C7, amended: a failed fetch for a day ends the whole run: the exception
\* leaves main(), no bulk write is issued for that day, no value is
\* returned, and no later day of the window is created, fetched or written.
C7_FetchFailureEndsRun ==
    \A n \in DOMAIN calls :
        FailedFetch(n) =>
            /\ n = Len(calls)
            /\ pc = "raised"
            /\ result = NoValue
            /\ DayWrites(calls[n].date) = <<>>

\* the fetch failed on a day that is not the last of the window
C7_Witness ==
    /\ calls # <<>>
    /\ FailedFetch(Len(calls))
    /\ i + 1 < duration
    /\ pc = "raised"

\* ---------------------------------------------------------------- C8
\* C8 as claimed: when a run in which no collaborator call failed has
\* ended, the number of crashes bulk-written for every fetched day is the
\* number of fetched reports minus the malformed ones.
C8_MalformedDiscarded ==
    (pc \in {"done", "raised"} /\ \A n \in DOMAIN calls : calls[n].ok) =>
        \A n \in DOMAIN calls :
            IsFetch(calls[n]) =>
                SumSeq(Sizes(DayWrites(calls[n].date))) =
                    Cardinality({k \in DOMAIN calls[n].docs :
                                    CanDecode(calls[n].docs[k])})

\* ---------------------------------------------------------------- C9
\* C9: once a bulk write has failed, processing has stopped: no later bulk
\* write is issued for that day and the failed batch is not submitted
\* again.
C9_WriteFailureFatal ==
    \A m \in DOMAIN calls :
        FailedBulk(m) =>
            /\ pc = "raised"
            /\ \A n \in DOMAIN calls :
                   (m < n /\ IsBulk(calls[n])) =>
                       /\ calls[n].date # calls[m].date
                       /\ calls[n].docs # calls[m].docs

\* a bulk write failed while reports of the day were still to come
C9_Witness ==
    /\ calls # <<>>
    /\ FailedBulk(Len(calls))
    /\ r < Len(reports)
    /\ pc = "raised"

\* ---------------------------------------------------------------- C10
\* C10: at the end of a day the pending crashes, if any, are submitted as
\* one final bulk write, and nothing is written if none is pending; a day
\* with no report has no bulk write, and a day with k reports,
\* 0 < k <= threshold, has exactly one bulk write, of size k.
C10_EndOfDayFlush ==
    [][ pc = "end_of_day" =>
            /\ IF Len(crashes_to_index) > 0
               THEN calls' = Append(calls, [op |-> "bulk_index",
                                            date |-> current_date,
                                            index |-> es_index,
                                            docs |-> crashes_to_index,
                                            ok |-> pc' # "raised"])
               ELSE calls' = calls /\ pc' = "next_day"
            /\ LET sizes == Sizes(DayWritesOf(calls', current_date))
                   k == Len(reports)
               IN  /\ k = 0 => sizes = <<>>
                   /\ (0 < k /\ k <= index_doc_number) => sizes = <<k>>
      ]_vars

\* a day with exactly `threshold` reports ended with one write of them all
C10_Witness ==
    /\ DayComplete
    /\ Len(reports) > 1
    /\ Len(reports) = index_doc_number
    /\ Sizes(DayWrites(current_date)) = <<Len(reports)>>

\* ---------------------------------------------------------------- C11
\* C11: main() invokes the fetch at most once for a day, and exactly once
\* for every day whose index was created and whose processing went on; each
\* invocation passes a retry limit of 5; the client makes at most 5 tries,
\* and a failure is surfaced only by the 5th.
C11_OneFetchPerDay ==
    /\ \A n \in DOMAIN calls :
           /\ Len(DayFetches(calls[n].date)) <= 1
           /\ IsFetch(calls[n]) => calls[n].retries = 5
           /\ (IsCreate(calls[n]) /\ calls[n].ok
                  /\ (n < Len(calls) \/ pc # "fetch")) =>
                  Len(DayFetches(calls[n].date)) = 1
           /\ FailedFetch(n) => attempts + 1 = 5
    /\ attempts + 1 <= 5
    /\ pc \in {"for_report", "store", "end_of_day", "next_day"} =>
           Len(DayFetches(current_date)) = 1

\* a fetch failed after four failed tries, on the second day of a run
C11_Witness ==
    /\ calls # <<>>
    /\ FailedFetch(Len(calls))
    /\ attempts = 4
    /\ i = 1
    /\ Len(SelectSeq(calls, IsFetch)) = 2

\* ---------------------------------------------------------------- C12
\* get_index_for_date is checked on its own over more days and templates
NameWindow == 5
NameDates == {MinusDays(d, k) : d \in EndDates, k \in 0..NameWindow}
NameTemplates ==
    IndexTemplates \cup
        {<<"socorro", "%y", "%m">>, <<"%d", ".", "%m", ".", "%Y">>,
         <<"socorro", "%%">>, <<"100", "%%", "-", "%Y">>}

InitIndex ==
    /\ end_date \in NameDates
    /\ duration = 1
    /\ index_doc_number = 0
    /\ elasticsearch_index \in NameTemplates
    /\ current_date = end_date
    /\ i = 0
    /\ es_index = None
    /\ day = ""
    /\ reports = <<>>
    /\ r = 0
    /\ processed_crash = None
    /\ crashes_to_index = <<>>
    /\ pc = "get_index"
    /\ result = NoValue
    /\ attempts = 0
    /\ calls = <<>>

\* es_index = self.get_index_for_date(current_date)
GetIndex ==
    /\ pc = "get_index"
    /\ es_index' = get_index_for_date(current_date)
    /\ pc' = "got_index"
    /\ UNCHANGED <<config, current_date, i, day, reports, r, processed_crash,
                   crashes_to_index, result, attempts, calls>>

\* the same call once more, on the same day and template
GetIndexAgain ==
    /\ pc = "got_index"
    /\ day' = es_index
    /\ es_index' = get_index_for_date(current_date)
    /\ pc' = "got_index_twice"
    /\ UNCHANGED <<config, current_date, i, reports, r, processed_crash,
                   crashes_to_index, result, attempts, calls>>

NextIndex == GetIndex \/ GetIndexAgain

SpecIndex == InitIndex /\ [][NextIndex]_vars

\* the text of a template as it is configured
RECURSIVE TemplateText(_)
TemplateText(format) ==
    IF format = <<>> THEN ""
    ELSE Head(format) \o TemplateText(Tail(format))

\* a template holds a date placeholder
HasDatePlaceholder(format) ==
    \E k \in DOMAIN format : format[k] \in {"%Y", "%y", "%m", "%d"}

\* decimal text of n in `width` digits, digit by digit
RECURSIVE Decimal(_, _)
Decimal(n, width) ==
    IF width = 0 THEN ""
    ELSE Decimal(n \div 10, width - 1) \o ToString(n % 10)

\* the rendering of a template for a day, piece by piece from the left
RECURSIVE Rendered(_, _, _)
Rendered(date, format, k) ==
    IF k > Len(format) THEN ""
    ELSE (CASE format[k] = "%Y" -> Decimal(date.y, 4)
            [] format[k] = "%y" -> Decimal(date.y % 100, 2)
            [] format[k] = "%m" -> Decimal(date.m, 2)
            [] format[k] = "%d" -> Decimal(date.d, 2)
            [] format[k] = "%%" -> "%"
            [] OTHER -> format[k]) \o Rendered(date, format, k + 1)

\* C12 as claimed: the name is absent for an empty template, the template
\* unchanged when it holds no date placeholder, and the template with the
\* day's text substituted otherwise.
C12_NameByPlaceholder ==
    pc \in {"got_index", "got_index_twice"} =>
        IF elasticsearch_index = <<>> THEN es_index = None
        ELSE IF ~HasDatePlaceholder(elasticsearch_index)
             THEN es_index = TemplateText(elasticsearch_index)
             ELSE es_index = Rendered(current_date, elasticsearch_index, 1)

\* C12, amended: the name is absent for an empty template, the template
\* unchanged when it holds no '%' character, and otherwise the strftime
\* rendering of the template for the day: every date placeholder replaced
\* by the day's text and every '%%' by '%'.  The same day and template give
\* the same name again.
C12_NameByPercent ==
    /\ pc \in {"got_index", "got_index_twice"} =>
           IF elasticsearch_index = <<>> THEN es_index = None
           ELSE IF \A k \in DOMAIN elasticsearch_index :
                       elasticsearch_index[k] \notin Directives
                THEN es_index = TemplateText(elasticsearch_index)
                ELSE es_index = Rendered(current_date, elasticsearch_index, 1)
    /\ pc = "got_index_twice" => es_index = day

\* a template whose only '%' is an escaped one is rendered, not kept
C12_Witness ==
    /\ pc = "got_index_twice"
    /\ elasticsearch_index = <<"socorro", "%%">>
    /\ es_index = "socorro%"
    /\ es_index # TemplateText(elasticsearch_index)

\* ---------------------------------------------------------------- C13, C14
\* format_dates_in_crash is checked on its own over crashes whose attributes
\* take dates in every accepted form and values that are no dates
CrashAttrs == {"uuid", "date_processed", "client_crash_date"}
AttrValues ==
    {HBaseDate, CanonDate, DateOnly, CanonMidnight,
     NotADate, "", "20120504151033", None, "2012-13-45 25:61:61", "2012-05-"}
Crashes == [CrashAttrs -> AttrValues]

InitFormat ==
    /\ end_date \in {MkDate(2024, 3, 1)}
    /\ duration = 1
    /\ index_doc_number = 0
    /\ elasticsearch_index = <<>>
    /\ current_date = end_date
    /\ i = 0
    /\ es_index = None
    /\ day = ""
    /\ reports = <<>>
    /\ r = 0
    /\ processed_crash \in Crashes
    /\ crashes_to_index = <<>>
    /\ pc = "format"
    /\ result = NoValue
    /\ attempts = 0
    /\ calls = <<>>

\* processed_crash = self.format_dates_in_crash(processed_crash); the crash
\* as it was is kept in `reports`
FormatDates ==
    /\ pc = "format"
    /\ reports' = <<processed_crash>>
    /\ processed_crash' = format_dates_in_crash(processed_crash)
    /\ pc' = "formatted"
    /\ UNCHANGED <<config, current_date, i, es_index, day, r,
                   crashes_to_index, result, attempts, calls>>

\* the same call on its own result; the first result is kept in
\* `crashes_to_index`
FormatDatesAgain ==
    /\ pc = "formatted"
    /\ crashes_to_index' = <<processed_crash>>
    /\ processed_crash' = format_dates_in_crash(processed_crash)
    /\ pc' = "formatted_twice"
    /\ UNCHANGED <<config, current_date, i, es_index, day, reports, r,
                   result, attempts, calls>>

NextFormat == FormatDates \/ FormatDatesAgain

SpecFormat == InitFormat /\ [][NextFormat]_vars

\* the texts that denote a date, and the canonical text of each
DateTexts == {HBaseDate, CanonDate, DateOnly, CanonMidnight}
CanonOf(v) ==
    IF v \in {HBaseDate, CanonDate} THEN CanonDate ELSE CanonMidnight

C14_OnlyDatesChange ==
    pc = "formatted" =>
        /\ DOMAIN processed_crash = DOMAIN reports[1]
        /\ \A attr \in DOMAIN reports[1] :
               IF reports[1][attr] \in DateTexts
               THEN processed_crash[attr] = CanonOf(reports[1][attr])
               ELSE processed_crash[attr] = reports[1][attr]

\* a malformed date and a text beside a date that was rewritten
C14_Witness ==
    /\ pc = "formatted"
    /\ reports[1]["client_crash_date"] = "2012-13-45 25:61:61"
    /\ reports[1]["uuid"] = ""
    /\ reports[1]["date_processed"] = HBaseDate
    /\ processed_crash["client_crash_date"] = "2012-13-45 25:61:61"
    /\ processed_crash["uuid"] = ""
    /\ processed_crash["date_processed"] = CanonDate

\* ---------------------------------------------------------------- C15
\* C15 as claimed: a run in which no collaborator call failed ends by
\* returning 0, after the last day of the window.
C15_SuccessIfNoCallFails ==
    (RunEnded /\ AllCallsOk) =>
        /\ pc = "done"
        /\ result = 0
        /\ Len(ProcessedDays) = Max(duration, 0)

\* ---------------------------------------------------------------- C16
\* create_index, then get_list, then the bulk writes
Rank(c) == IF IsCreate(c) THEN 1 ELSE IF IsFetch(c) THEN 2 ELSE 3

\* C16: within a day the create request precedes the fetch and the fetch
\* precedes every bulk write; the calls of a day all precede the calls of
\* every earlier calendar day.
C16_CallOrder ==
    \A m, n \in DOMAIN calls :
        m < n =>
            /\ ToOrdinal(calls[m].date) >= ToOrdinal(calls[n].date)
            /\ calls[m].date = calls[n].date =>
                   /\ Rank(calls[m]) <= Rank(calls[n])
                   /\ Rank(calls[m]) = Rank(calls[n]) => IsBulk(calls[m])

\* two days with a create, a fetch and a bulk write each
C16_Witness ==
    /\ Len(calls) >= 6
    /\ IsBulk(calls[Len(calls)])
    /\ \E m \in 1..(Len(calls) - 1) :
           /\ IsBulk(calls[m])
           /\ IsCreate(calls[m + 1])
           /\ calls[m + 1].date = MinusOneDay(calls[m].date)

RECURSIVE Concat(_)
Concat(batches) ==
    IF batches = <<>> THEN <<>>
    ELSE Head(batches).docs \o Concat(Tail(batches))

\* C18: when a day is over on which the fetch succeeded, every report was
\* decoded and no bulk write failed, the batches written for the day, one
\* after the other, are the fetched reports, decoded and normalized, in the
\* order of the fetch, each once.
C18_NoLossNoReorder ==
    (pc \in {"end_of_day", "next_day", "raised"}
        /\ DayFetches(current_date) # <<>>
        /\ \A n \in DOMAIN calls : calls[n].date = current_date => calls[n].ok
        /\ r = Len(reports)
        /\ \A k \in DOMAIN reports : CanDecode(reports[k])) =>
        /\ pc # "raised"
        /\ Concat(DayWrites(current_date))
               \o (IF pc = "end_of_day" THEN crashes_to_index ELSE <<>>)
             = [k \in DOMAIN reports |->
                   format_dates_in_crash(json_loads(reports[k]))]

\* three reports written in two batches, dates rewritten
C18_Witness ==
    /\ DayComplete
    /\ Len(reports) = 3
    /\ Len(DayWrites(current_date)) = 2
    /\ Concat(DayWrites(current_date))[3].uuid = reports[3].uuid
    /\ Concat(DayWrites(current_date))[3].date_processed = CanonDate

\* ---------------------------------------------------------------- C19
\* C19 as claimed: no bulk write is issued with an empty batch, whatever
\* the threshold.
C19_NoEmptyBatch ==
    \A n \in DOMAIN calls : IsBulk(calls[n]) => calls[n].docs # <<>>

====
